---- MODULE Spec2Model ----
(***************************************************************************)
(* Model of Args::parse (src/src/arguments/mod.rs): the command-line       *)
(* grammar parser, the list combinator, the writes to the disk buffer and  *)
(* the hand-off to the tokenizer and the InputIterator.                    *)
(*                                                                         *)
(* A token of the argument vector is a sequence of one-character strings,  *)
(* so that the code's character-level tests (first character, second       *)
(* character, slices argument[1..], argument[2..]) are modelled as written.*)
(***************************************************************************)
EXTENDS Integers, Sequences, FiniteSets, TLC

VARIABLES
    argv,                 \* env::args().skip(1), as given to the process
    stdin,                \* whether standard input was read, and the lines read
    pc,                   \* position of Args::parse
    raw_args,             \* the tokens the iterator raw_args has not yielded yet
    mode,                 \* Mode: Arguments, Command, Inputs, Files
    flags,                \* self.flags
    ncores,               \* self.ncores
    quote,                \* let mut quote
    shellquote,           \* let mut shellquote
    comm,                 \* let mut comm
    lists,                \* let mut lists
    current_inputs,       \* let mut current_inputs
    number_of_arguments,  \* let mut number_of_arguments
    disk_buffer,          \* the DiskBuffer writer: bytes queued, flushed or not
    err,                  \* the ParseErr returned, or NoErr
    arguments,            \* what tokenize was called with
    iterator              \* the InputIterator returned

vars == <<argv, stdin, pc, raw_args, mode, flags, ncores, quote, shellquote, comm,
          lists, current_inputs, number_of_arguments, disk_buffer, err,
          arguments, iterator>>

-----------------------------------------------------------------------------
(* Bounds of the model. *)

\* Longest argument vector of the grammar specification Spec.
MaxArgs == 4

\* Longest argument vector of the list specification SpecLists.
MaxListArgs == 5

-----------------------------------------------------------------------------
(* Tokens. *)

SepInputs    == <<":", ":", ":">>
SepInputsAdd == <<":", ":", ":", "+">>
SepFiles     == <<":", ":", ":", ":">>
SepFilesAdd  == <<":", ":", ":", ":", "+">>

Separators == {SepInputs, SepInputsAdd, SepFiles, SepFilesAdd}

NoErr     == <<"NoErr">>
\* tokenize not called yet, and what a call leaves in `arguments`.
NotTokenized == [called |-> FALSE, template |-> <<>>, count |-> 0]

Tokenized(template, count) == [called |-> TRUE, template |-> template, count |-> count]

\* No InputIterator constructed yet, and the one InputIterator::new constructs.
NoIterator == [called |-> FALSE, file |-> [data |-> <<>>, flushed |-> FALSE], count |-> 0]

InputIteratorNew(file, count) == [called |-> TRUE, file |-> file, count |-> count]

\* Standard input not read, and standard input read to its end.
StdinUnread == [read |-> FALSE, lines |-> <<>>]

StdinRead(lines) == [read |-> TRUE, lines |-> lines]

\* A line of a file or of standard input that fails to decode (lines() yields Err).
Undecodable == <<"Undecodable">>

\* num_cpus::get(): the number of cores of the machine.
NumCpus == 4

\* Flags::new()
FlagsNew ==
    [inputs_are_commands |-> FALSE, uses_shell |-> TRUE, quiet |-> FALSE,
     verbose |-> FALSE, pipe |-> FALSE]

\* The files that exist, with their lines: fs::File::open fails on any other path.
FileSystem ==
    [p \in {<<"f">>} |-> << <<"a">>, Undecodable, <<"b">> >>]

-----------------------------------------------------------------------------
(* Sequence helpers. *)

RECURSIVE Flatten(_)
Flatten(ss) == IF ss = <<>> THEN <<>> ELSE Head(ss) \o Flatten(Tail(ss))

\* s[from..] of Rust, with from counted from 0.
SliceFrom(s, from) == SubSeq(s, from + 1, Len(s))

\* The Ok lines of a sequence of lines: `if let Ok(line) = line`.
OkLines(ls) == SelectSeq(ls, LAMBDA l : l # Undecodable)

-----------------------------------------------------------------------------
(* jobs::parse: a bare integer is the exact job count, <int>% is that       *)
(* percentage of the detected cores, rounded, at least 1; anything else is  *)
(* a job-parse error.                                                       *)

Digits == {"0", "1", "2", "3", "4", "5", "6", "7", "8", "9"}

DigitVal(c) ==
    CASE c = "0" -> 0 [] c = "1" -> 1 [] c = "2" -> 2 [] c = "3" -> 3 [] c = "4" -> 4
      [] c = "5" -> 5 [] c = "6" -> 6 [] c = "7" -> 7 [] c = "8" -> 8 [] c = "9" -> 9

IsNumber(s) == s # <<>> /\ \A i \in 1..Len(s) : s[i] \in Digits

RECURSIVE NumberVal(_)
NumberVal(s) ==
    IF s = <<>> THEN 0
    ELSE 10 * NumberVal(SubSeq(s, 1, Len(s) - 1)) + DigitVal(s[Len(s)])

JobsParse(val) ==
    IF IsNumber(val)
    THEN [ok |-> TRUE, value |-> NumberVal(val)]
    ELSE IF val # <<>> /\ val[Len(val)] = "%" /\ IsNumber(SubSeq(val, 1, Len(val) - 1))
    THEN LET percent == NumberVal(SubSeq(val, 1, Len(val) - 1))
             rounded == (2 * NumCpus * percent + 100) \div 200
         IN  [ok |-> TRUE, value |-> IF rounded < 1 THEN 1 ELSE rounded]
    ELSE [ok |-> FALSE, value |-> 0]

-----------------------------------------------------------------------------
(* The loop body of Args::parse, one `match mode` arm per operator.  Each   *)
(* takes the parser's state s (a record of the local variables and of       *)
(* self.flags, self.ncores) after raw_args.next() has yielded `argument`,   *)
(* and gives the state at the end of the iteration.                         *)

\* Mutant of Fail: the error is noted and the loop goes on.
FailAndGoOn(s, e) == [s EXCEPT !.err = e]

\* return Err(e), and the `?` of a call that failed with e
Fail(s, e) == [s EXCEPT !.pc = "error", !.err = e]

\* self.ncores = jobs::parse(val)?
SetJobs(s, val) ==
    LET r == JobsParse(val)
    IN  IF r.ok THEN [s EXCEPT !.ncores = r.value]
        ELSE Fail(s, <<"JobsParse", val>>)

\* Mutant of JobsFromNext: without a value the job count is left as it is.
JobsFromNextOptional(s) ==
    IF s.raw_args = <<>> THEN s
    ELSE SetJobs([s EXCEPT !.raw_args = Tail(s.raw_args)], Head(s.raw_args))

\* Mutant of JobsFromNext: the value is peeked at, not taken from raw_args.
JobsFromNextPeeked(s) ==
    IF s.raw_args = <<>> THEN Fail(s, <<"JobsNoValue">>)
    ELSE SetJobs(s, Head(s.raw_args))

\* self.ncores = jobs::parse(&raw_args.next().ok_or(ParseErr::JobsNoValue)?)?
JobsFromNext(s) ==
    IF s.raw_args = <<>> THEN Fail(s, <<"JobsNoValue">>)
    ELSE SetJobs([s EXCEPT !.raw_args = Tail(s.raw_args)], Head(s.raw_args))

\* Mutant of ShortOptions: the error names the offending character, not the token.
RECURSIVE ShortOptionsNamesCharacter(_, _, _)
ShortOptionsNamesCharacter(s, chars, argument) ==
    IF chars = <<>> THEN s
    ELSE LET character == Head(chars)
             rest      == Tail(chars)
         IN  CASE character = "h" -> [s EXCEPT !.pc = "exit"]
               [] character = "n" ->
                    ShortOptionsNamesCharacter([s EXCEPT !.flags.uses_shell = FALSE],
                                               rest, argument)
               [] character = "p" ->
                    ShortOptionsNamesCharacter([s EXCEPT !.flags.pipe = TRUE], rest, argument)
               [] character = "q" ->
                    ShortOptionsNamesCharacter([s EXCEPT !.quote = TRUE], rest, argument)
               [] character = "s" ->
                    ShortOptionsNamesCharacter([s EXCEPT !.flags.quiet = TRUE], rest, argument)
               [] character = "v" ->
                    ShortOptionsNamesCharacter([s EXCEPT !.flags.verbose = TRUE],
                                               rest, argument)
               [] OTHER -> Fail(s, <<"InvalidArgument", <<"-", character>> >>)

\* for character in argument[1..].chars() { match character { ... } }
RECURSIVE ShortOptions(_, _, _)
ShortOptions(s, chars, argument) ==
    IF chars = <<>> THEN s
    ELSE LET character == Head(chars)
             rest      == Tail(chars)
         IN  CASE character = "h" -> [s EXCEPT !.pc = "exit"]
               [] character = "n" ->
                    ShortOptions([s EXCEPT !.flags.uses_shell = FALSE], rest, argument)
               [] character = "p" ->
                    ShortOptions([s EXCEPT !.flags.pipe = TRUE], rest, argument)
               [] character = "q" ->
                    ShortOptions([s EXCEPT !.quote = TRUE], rest, argument)
               [] character = "s" ->
                    ShortOptions([s EXCEPT !.flags.quiet = TRUE], rest, argument)
               [] character = "v" ->
                    ShortOptions([s EXCEPT !.flags.verbose = TRUE], rest, argument)
               [] OTHER -> Fail(s, <<"InvalidArgument", argument>>)

\* match &argument[2..] { "help" => ..., "jobs" => ..., ... }
LongOption(s, argument) ==
    LET name == SliceFrom(argument, 2)
    IN  CASE name = <<"h", "e", "l", "p">> -> [s EXCEPT !.pc = "exit"]
          [] name = <<"j", "o", "b", "s">> -> JobsFromNext(s)
          [] name = <<"n", "o", "-", "s", "h", "e", "l", "l">> ->
                [s EXCEPT !.flags.uses_shell = FALSE]
          [] name = <<"n", "u", "m", "-", "c", "p", "u", "-", "c", "o", "r", "e", "s">> ->
                [s EXCEPT !.pc = "exit"]
          [] name = <<"p", "i", "p", "e">> -> [s EXCEPT !.flags.pipe = TRUE]
          [] name = <<"q", "u", "i", "e", "t">> -> [s EXCEPT !.flags.quiet = TRUE]
          [] name = <<"s", "i", "l", "e", "n", "t">> -> [s EXCEPT !.flags.quiet = TRUE]
          [] name = <<"q", "u", "o", "t", "e">> -> [s EXCEPT !.quote = TRUE]
          [] name = <<"s", "h", "e", "l", "l", "q", "u", "o", "t", "e">> ->
                [s EXCEPT !.shellquote = TRUE]
          [] name = <<"v", "e", "r", "b", "o", "s", "e">> ->
                [s EXCEPT !.flags.verbose = TRUE]
          [] name = <<"v", "e", "r", "s", "i", "o", "n">> -> [s EXCEPT !.pc = "exit"]
          [] OTHER -> Fail(s, <<"InvalidArgument", argument>>)

\* Mode::Arguments => { ... }
ArgumentsMode(s, argument) ==
    IF argument = <<>>
    THEN [s EXCEPT !.pc = "panic"]            \* char_iter.next().unwrap() on None
    ELSE IF argument[1] = "-"
    THEN IF Len(argument) >= 2
         THEN LET character == argument[2]
              IN  IF character = "j"
                  THEN IF Len(argument) > 2
                       THEN SetJobs(s, SliceFrom(argument, 2))
                       ELSE JobsFromNext(s)
                  ELSE IF character # "-"
                  THEN ShortOptions(s, SliceFrom(argument, 1), argument)
                  ELSE LongOption(s, argument)
         ELSE Fail(s, <<"InvalidArgument", <<"-">> >>)
    ELSE CASE argument = SepInputs ->
                [s EXCEPT !.mode = "Inputs", !.flags.inputs_are_commands = TRUE]
           [] argument = SepFiles ->
                [s EXCEPT !.mode = "Files", !.flags.inputs_are_commands = TRUE]
           [] OTHER ->
                [s EXCEPT !.comm = s.comm \o argument, !.mode = "Command"]

\* Mutant of CommandMode: only the plain separators are recognised.
CommandModePlainOnly(s, argument) ==
    CASE argument = SepInputs -> [s EXCEPT !.mode = "Inputs"]
      [] argument = SepFiles  -> [s EXCEPT !.mode = "Files"]
      [] OTHER -> [s EXCEPT !.comm = (s.comm \o <<" ">>) \o argument]

\* Mutant of CommandMode: the space before the appended argument is forgotten.
CommandModeNoSpace(s, argument) ==
    CASE argument \in {SepInputs, SepInputsAdd} -> [s EXCEPT !.mode = "Inputs"]
      [] argument \in {SepFiles, SepFilesAdd}   -> [s EXCEPT !.mode = "Files"]
      [] OTHER -> [s EXCEPT !.comm = s.comm \o argument]

\* Mode::Command => match argument { ... }
CommandMode(s, argument) ==
    CASE argument \in {SepInputs, SepInputsAdd} -> [s EXCEPT !.mode = "Inputs"]
      [] argument \in {SepFiles, SepFilesAdd}   -> [s EXCEPT !.mode = "Files"]
      [] OTHER -> [s EXCEPT !.comm = (s.comm \o <<" ">>) \o argument]

\* Mutant of CloseList: the current list is pushed even when it is empty.
CloseListAlways(s) ==
    [s EXCEPT !.lists = Append(s.lists, s.current_inputs), !.current_inputs = <<>>]

\* if !current_inputs.is_empty() { lists.push(current_inputs.clone()); current_inputs.clear(); }
CloseList(s) ==
    IF s.current_inputs # <<>>
    THEN [s EXCEPT !.lists = Append(s.lists, s.current_inputs), !.current_inputs = <<>>]
    ELSE s

\* file_parse(&mut current_inputs, argument)?
FileParse(s, path) ==
    IF path \in DOMAIN FileSystem
    THEN [s EXCEPT !.current_inputs = s.current_inputs \o OkLines(FileSystem[path])]
    ELSE Fail(s, <<"FileOpen", path>>)

\* Mutant of InputsMode: `::::` holds for one file only, the mode falls back to Inputs.
InputsModeOneFile(s, argument) ==
    CASE argument = SepInputs    -> CloseList([s EXCEPT !.mode = "Inputs"])
      [] argument = SepInputsAdd -> [s EXCEPT !.mode = "Inputs"]
      [] argument = SepFiles     -> CloseList([s EXCEPT !.mode = "Files"])
      [] argument = SepFilesAdd  -> [s EXCEPT !.mode = "Files"]
      [] OTHER ->
           CASE s.mode = "Inputs" ->
                  [s EXCEPT !.current_inputs = Append(s.current_inputs, argument)]
             [] s.mode = "Files" -> FileParse([s EXCEPT !.mode = "Inputs"], argument)
             [] OTHER -> [s EXCEPT !.pc = "panic"]

\* _ => match argument { ... }: the arm of Mode::Inputs and Mode::Files
InputsMode(s, argument) ==
    CASE argument = SepInputs    -> CloseList([s EXCEPT !.mode = "Inputs"])
      [] argument = SepInputsAdd -> [s EXCEPT !.mode = "Inputs"]
      [] argument = SepFiles     -> CloseList([s EXCEPT !.mode = "Files"])
      [] argument = SepFilesAdd  -> [s EXCEPT !.mode = "Files"]
      [] OTHER ->
           CASE s.mode = "Inputs" ->
                  [s EXCEPT !.current_inputs = Append(s.current_inputs, argument)]
             [] s.mode = "Files" -> FileParse(s, argument)
             [] OTHER -> [s EXCEPT !.pc = "panic"]      \* unreachable!()

\* match mode { ... }
ParseArgument(s, argument) ==
    CASE s.mode = "Arguments" -> ArgumentsMode(s, argument)
      [] s.mode = "Command"   -> CommandMode(s, argument)
      [] OTHER                -> InputsMode(s, argument)

-----------------------------------------------------------------------------
(* The disk buffer: write and write_byte queue bytes in order, is_empty     *)
(* tells whether no byte was ever queued, flush forces them to the file.    *)

DiskBufferNew == [data |-> <<>>, flushed |-> FALSE]

Write(buf, bytes) == [buf EXCEPT !.data = buf.data \o bytes]

WriteByte(buf, byte) == [buf EXCEPT !.data = Append(buf.data, byte)]

IsEmpty(buf) == buf.data = <<>>

DiskFlush(buf) == [buf EXCEPT !.flushed = TRUE]

-----------------------------------------------------------------------------
(* permutate::Permutator: a vector of indexes, one per list, starting at    *)
(* the first value of every list; each iteration yields the values under    *)
(* the indexes and then increments the vector from its last position, with  *)
(* carry towards the first.                                                 *)

RECURSIVE IncrementFrom(_, _, _)
IncrementFrom(indexes, ls, k) ==
    IF k = 0 THEN indexes
    ELSE IF indexes[k] < Len(ls[k])
    THEN [indexes EXCEPT ![k] = indexes[k] + 1]
    ELSE IncrementFrom([indexes EXCEPT ![k] = 1], ls, k - 1)

RECURSIVE MaxIters(_)
MaxIters(ls) == IF ls = <<>> THEN 1 ELSE Len(Head(ls)) * MaxIters(Tail(ls))

RECURSIVE PermutatorFrom(_, _, _)
PermutatorFrom(ls, indexes, left) ==
    IF left = 0 THEN <<>>
    ELSE <<[k \in 1..Len(ls) |-> ls[k][indexes[k]]]>>
         \o PermutatorFrom(ls, IncrementFrom(indexes, ls, Len(ls)), left - 1)

Permutator(ls) == PermutatorFrom(ls, [k \in 1..Len(ls) |-> 1], MaxIters(ls))

-----------------------------------------------------------------------------
(* The list combinator of Args::parse.                                      *)

\* Mutant of WriteElements: the separating space is not written.
RECURSIVE WriteElementsNoSpace(_, _)
WriteElementsNoSpace(buf, elements) ==
    IF elements = <<>> THEN buf
    ELSE WriteElementsNoSpace(Write(buf, Head(elements)), Tail(elements))

\* for element in iter { write_byte(b' '); write(element) }
RECURSIVE WriteElements(_, _)
WriteElements(buf, elements) ==
    IF elements = <<>> THEN buf
    ELSE WriteElements(Write(WriteByte(buf, " "), Head(elements)), Tail(elements))

\* The body of `for permutation in permutator`: the first element, then every
\* other element after a space, then a newline.
WritePermutation(buf, permutation) ==
    WriteByte(WriteElements(Write(buf, Head(permutation)), Tail(permutation)), "\n")

\* The body of `for input in current_inputs` and of the loop over stdin's lines.
WriteInput(buf, input) == WriteByte(Write(buf, input), "\n")

RECURSIVE WritePermutations(_, _)
WritePermutations(buf, perms) ==
    IF perms = <<>> THEN buf
    ELSE WritePermutations(WritePermutation(buf, Head(perms)), Tail(perms))

RECURSIVE WriteInputs(_, _)
WriteInputs(buf, inputs) ==
    IF inputs = <<>> THEN buf
    ELSE WriteInputs(WriteInput(buf, Head(inputs)), Tail(inputs))

\* if lists.len() > 1 { permutations } else { for input in current_inputs }:
\* the records the branch taken writes.
UsesPermutator(ls) == Len(ls) > 1

-----------------------------------------------------------------------------
(* The two transforms of the command template.                              *)

\* Mutant of quote_command: only the first backslash is doubled.
RECURSIVE quote_command_first(_)
quote_command_first(command) ==
    IF command = <<>> THEN <<>>
    ELSE IF Head(command) = "\\" THEN <<"\\", "\\">> \o Tail(command)
    ELSE <<Head(command)>> \o quote_command_first(Tail(command))

\* fn quote_command(command: String) -> String
RECURSIVE quote_command(_)
quote_command(command) ==
    IF command = <<>> THEN <<>>
    ELSE LET character == Head(command)
         IN  (IF character = "\\" THEN <<"\\", character>> ELSE <<character>>)
             \o quote_command(Tail(command))

\* The grave accent, a character that cannot be written inside a TLA+ string.
GraveAccent == "grave"

ShellMeta ==
    {"$", " ", "\\", ">", "<", "^", "&", "#", "!", "*", "'", "\"", GraveAccent, "~",
     "{", "}", "[", "]", "(", ")", ";", "|", "?"}

\* Mutant of ShellquoteFrom: the first space is escaped like every other one.
RECURSIVE ShellquoteFromEverySpace(_, _)
ShellquoteFromEverySpace(command, command_found) ==
    IF command = <<>> THEN <<>>
    ELSE LET character == Head(command)
         IN  IF character \in ShellMeta
             THEN <<"\\", character>> \o ShellquoteFromEverySpace(Tail(command), command_found)
             ELSE <<character>> \o ShellquoteFromEverySpace(Tail(command), command_found)

\* The loop of shellquote_command from the character reached, command_found as it is.
RECURSIVE ShellquoteFrom(_, _)
ShellquoteFrom(command, command_found) ==
    IF command = <<>> THEN <<>>
    ELSE LET character == Head(command)
         IN  IF character = " " /\ ~command_found
             THEN <<character>> \o ShellquoteFrom(Tail(command), TRUE)
             ELSE IF character \in ShellMeta
             THEN <<"\\", character>> \o ShellquoteFrom(Tail(command), command_found)
             ELSE <<character>> \o ShellquoteFrom(Tail(command), command_found)

shellquote_command(command) == ShellquoteFrom(command, FALSE)

\* Mutant of ExpandCommand: the two tests are made in the other order.
ExpandCommandQuoteFirst(c, q, sq) ==
    IF q THEN quote_command(c)
    ELSE IF sq THEN shellquote_command(c)
    ELSE c

\* if shellquote { shellquote_command(comm) } else if quote { quote_command(comm) }
ExpandCommand(c, q, sq) ==
    IF sq THEN shellquote_command(c)
    ELSE IF q THEN quote_command(c)
    ELSE c

\* tokenize fails on a malformed placeholder: an opening brace never closed.
MalformedPlaceholder(c) ==
    \E i \in 1..Len(c) : c[i] = "{" /\ ~\E j \in (i + 1)..Len(c) : c[j] = "}"

-----------------------------------------------------------------------------
(* Args::parse as a state machine.                                          *)

\* The local variables of the loop, as the record the loop body works on.
Locals ==
    [pc |-> pc, raw_args |-> raw_args, mode |-> mode, flags |-> flags,
     ncores |-> ncores, quote |-> quote, shellquote |-> shellquote, comm |-> comm,
     lists |-> lists, current_inputs |-> current_inputs, err |-> err]

SetLocals(s) ==
    /\ pc' = s.pc
    /\ raw_args' = s.raw_args
    /\ mode' = s.mode
    /\ flags' = s.flags
    /\ ncores' = s.ncores
    /\ quote' = s.quote
    /\ shellquote' = s.shellquote
    /\ comm' = s.comm
    /\ lists' = s.lists
    /\ current_inputs' = s.current_inputs
    /\ err' = s.err

\* The locals at the entry of parse for the argument vector av, after Args::new().
NewLocals(av) ==
    [pc |-> "start", raw_args |-> av, mode |-> "Unset", flags |-> FlagsNew,
     ncores |-> NumCpus, quote |-> FALSE, shellquote |-> FALSE, comm |-> <<>>,
     lists |-> <<>>, current_inputs |-> <<>>, err |-> NoErr]

\* Args::new() and the process's argument vector.
InitWith(vectors) ==
    /\ argv \in vectors
    /\ stdin = StdinUnread
    /\ pc = NewLocals(argv).pc
    /\ raw_args = NewLocals(argv).raw_args
    /\ mode = NewLocals(argv).mode
    /\ flags = NewLocals(argv).flags
    /\ ncores = NewLocals(argv).ncores
    /\ quote = NewLocals(argv).quote
    /\ shellquote = NewLocals(argv).shellquote
    /\ comm = NewLocals(argv).comm
    /\ lists = NewLocals(argv).lists
    /\ current_inputs = NewLocals(argv).current_inputs
    /\ number_of_arguments = 0
    /\ disk_buffer = DiskBufferNew
    /\ err = NewLocals(argv).err
    /\ arguments = NotTokenized
    /\ iterator = NoIterator

\* The initial parsing mode, from a peek at the first argument.
InitialMode(first) ==
    CASE first = SepInputs -> "Inputs"
      [] first = SepFiles  -> "Files"
      [] OTHER             -> "Arguments"

\* Mutant of Start: an empty argument vector is taken as one of Arguments mode.
StartUnchecked(s) ==
    LET first == IF s.raw_args = <<>> THEN "Arguments" ELSE InitialMode(Head(s.raw_args))
    IN  [s EXCEPT !.pc = "loop", !.mode = first,
                  !.flags.inputs_are_commands = first \in {"Inputs", "Files"}]

\* Lines 88-96 on the locals s: the peek, the initial mode, inputs_are_commands.
Start(s) ==
    IF s.raw_args = <<>> THEN Fail(s, <<"NoArguments">>)
    ELSE LET first == InitialMode(Head(s.raw_args))
         IN  [s EXCEPT !.pc = "loop", !.mode = first,
                       !.flags.inputs_are_commands = first \in {"Inputs", "Files"}]

\* The whole loop of lines 99-237 on the locals s.
RECURSIVE ParseLoop(_)
ParseLoop(s) ==
    IF s.pc # "loop" \/ s.raw_args = <<>> THEN s
    ELSE ParseLoop(ParseArgument([s EXCEPT !.raw_args = Tail(s.raw_args)],
                                 Head(s.raw_args)))

\* Lines 70-96: the locals, the initial mode and inputs_are_commands.
Begin ==
    /\ pc = "start"
    /\ SetLocals(Start(Locals))
    /\ UNCHANGED <<argv, stdin, number_of_arguments, disk_buffer, arguments, iterator>>

\* Lines 99-237: one iteration of `while let Some(argument) = raw_args.next()`.
ParseNext ==
    /\ pc = "loop"
    /\ raw_args # <<>>
    /\ SetLocals(ParseArgument([Locals EXCEPT !.raw_args = Tail(raw_args)],
                               Head(raw_args)))
    /\ UNCHANGED <<argv, stdin, number_of_arguments, disk_buffer, arguments, iterator>>

\* Lines 237-241: the loop ends, the list still open is pushed if it holds a value.
EndOfArguments ==
    /\ pc = "loop"
    /\ raw_args = <<>>
    /\ pc' = "generate"
    /\ lists' = IF current_inputs # <<>> THEN Append(lists, current_inputs) ELSE lists
    /\ UNCHANGED <<argv, stdin, raw_args, mode, flags, ncores, quote, shellquote, comm,
                   current_inputs, number_of_arguments, disk_buffer, err, arguments,
                   iterator>>

\* Lines 243-279: the permutations of the lists, or the values of current_inputs.
Generate ==
    /\ pc = "generate"
    /\ pc' = "stdin"
    /\ IF UsesPermutator(lists)
       THEN /\ disk_buffer' = WritePermutations(disk_buffer, Permutator(lists))
            /\ number_of_arguments' = Len(Permutator(lists))
            /\ current_inputs' = current_inputs
       ELSE /\ disk_buffer' = WriteInputs(disk_buffer, current_inputs)
            /\ number_of_arguments' = Len(current_inputs)
            /\ current_inputs' = <<>>                  \* moved by the for loop
    /\ UNCHANGED <<argv, stdin, raw_args, mode, flags, ncores, quote, shellquote, comm,
                   lists, err, arguments, iterator>>

\* What standard input may hold: nothing, or lines of which one fails to decode.
StdinChoices == { <<>>, << <<"x">>, Undecodable, <<"y">> >> }

\* Mutant of StdinFallback: the records read from stdin are not counted.
StdinFallbackUncounted ==
    /\ pc = "stdin"
    /\ pc' = "flush"
    /\ IF IsEmpty(disk_buffer)
       THEN \E lines \in StdinChoices :
               /\ stdin' = StdinRead(lines)
               /\ disk_buffer' = WriteInputs(disk_buffer, OkLines(lines))
               /\ number_of_arguments' = number_of_arguments
       ELSE UNCHANGED <<disk_buffer, number_of_arguments, stdin>>
    /\ UNCHANGED <<argv, raw_args, mode, flags, ncores, quote, shellquote, comm,
                   lists, current_inputs, err, arguments, iterator>>

\* Lines 281-293: with nothing written, every Ok line of stdin becomes a record.
StdinFallback ==
    /\ pc = "stdin"
    /\ pc' = "flush"
    /\ IF IsEmpty(disk_buffer)
       THEN \E lines \in StdinChoices :
               /\ stdin' = StdinRead(lines)
               /\ disk_buffer' = WriteInputs(disk_buffer, OkLines(lines))
               /\ number_of_arguments' = number_of_arguments + Len(OkLines(lines))
       ELSE UNCHANGED <<disk_buffer, number_of_arguments, stdin>>
    /\ UNCHANGED <<argv, raw_args, mode, flags, ncores, quote, shellquote, comm,
                   lists, current_inputs, err, arguments, iterator>>

\* Mutant of Flush: the buffer is left as it is.
FlushForgotten ==
    /\ pc = "flush"
    /\ pc' = "expand"
    /\ UNCHANGED <<argv, stdin, raw_args, mode, flags, ncores, quote, shellquote, comm,
                   lists, current_inputs, number_of_arguments, disk_buffer, err,
                   arguments, iterator>>

\* Lines 295-297: disk_buffer.flush()
Flush ==
    /\ pc = "flush"
    /\ pc' = "expand"
    /\ disk_buffer' = DiskFlush(disk_buffer)
    /\ UNCHANGED <<argv, stdin, raw_args, mode, flags, ncores, quote, shellquote, comm,
                   lists, current_inputs, number_of_arguments, err, arguments, iterator>>

\* Lines 299-300: the command is expanded if quoting is enabled.
Expand ==
    /\ pc = "expand"
    /\ pc' = "tokenize"
    /\ comm' = ExpandCommand(comm, quote, shellquote)
    /\ UNCHANGED <<argv, stdin, raw_args, mode, flags, ncores, quote, shellquote,
                   lists, current_inputs, number_of_arguments, disk_buffer, err,
                   arguments, iterator>>

\* Lines 302-304: tokenize(&mut self.arguments, &comm, &path, number_of_arguments)
Tokenize ==
    /\ pc = "tokenize"
    /\ IF MalformedPlaceholder(comm)
       THEN /\ pc' = "error"
            /\ err' = <<"Token">>
            /\ arguments' = arguments
       ELSE /\ pc' = "iterator"
            /\ err' = err
            /\ arguments' = Tokenized(comm, number_of_arguments)
    /\ UNCHANGED <<argv, stdin, raw_args, mode, flags, ncores, quote, shellquote, comm,
                   lists, current_inputs, number_of_arguments, disk_buffer, iterator>>

\* Lines 306-308: Ok(InputIterator::new(&path, number_of_arguments))
NewInputIterator ==
    /\ pc = "iterator"
    /\ pc' = "done"
    /\ iterator' = InputIteratorNew(disk_buffer, number_of_arguments)
    /\ UNCHANGED <<argv, stdin, raw_args, mode, flags, ncores, quote, shellquote, comm,
                   lists, current_inputs, number_of_arguments, disk_buffer, err,
                   arguments>>

Next ==
    \/ Begin
    \/ ParseNext
    \/ EndOfArguments
    \/ Generate
    \/ StdinFallback
    \/ Flush
    \/ Expand
    \/ Tokenize
    \/ NewInputIterator

-----------------------------------------------------------------------------
(* The specifications: the same program over two sets of argument vectors.  *)

SeqsUpTo(S, n) == UNION {[1..k -> S] : k \in 0..n}

\* Options, a job count, a command word and the inline separators.
GrammarTokens ==
    { <<"-", "v", "q">>,
      <<"-", "-", "s", "h", "e", "l", "l", "q", "u", "o", "t", "e">>,
      <<"-", "j">>,
      <<"-", "j", "2">>,
      <<"-", "v", "j", "2">>,
      <<"2">>,
      <<"\\", "&">>,
      SepInputs,
      SepInputsAdd }

\* The four separators, a file of values and a word that names no file.
ListTokens ==
    { SepInputs, SepInputsAdd, SepFiles, SepFilesAdd, <<"f">>, <<"c">> }

Init == InitWith(SeqsUpTo(GrammarTokens, MaxArgs))

Spec == Init /\ [][Next]_vars

InitLists == InitWith(SeqsUpTo(ListTokens, MaxListArgs))

SpecLists == InitLists /\ [][Next]_vars

\* Longest argument vector of the option specification SpecOptions.
MaxOptArgs == 3

\* The three spellings of the job count, a good and a bad value, the tokens that
\* are no option (bare `-`, an unknown long option, an unknown character in a
\* short block after a flag and after the help option), the empty token, and the
\* new-list separators.
OptionTokens ==
    { <<"-", "j">>,
      <<"-", "-", "j", "o", "b", "s">>,
      <<"-", "j", "2">>,
      <<"-", "j", "x">>,
      <<"2">>,
      <<"x">>,
      <<"-">>,
      <<"-", "-", "b", "a", "d">>,
      <<"-", "v", "x">>,
      <<"-", "h", "x">>,
      <<>>,
      SepInputs,
      SepFiles }

InitOptions == InitWith(SeqsUpTo(OptionTokens, MaxOptArgs))

SpecOptions == InitOptions /\ [][Next]_vars

\* Longest command word of the quoting specification SpecCommands.
MaxCommandLen == 4

\* The characters of a command word: a plain one, the space, the backslash and
\* another shell metacharacter.
CommandChars == {"a", " ", "\\", "&"}

CommandWords == SeqsUpTo(CommandChars, MaxCommandLen) \ {<<>>}

\* The options that ask for quote_command and for shellquote_command.
QuoteOptions ==
    { <<"-", "q">>, <<"-", "-", "s", "h", "e", "l", "l", "q", "u", "o", "t", "e">> }

\* A quoting option and then the command template, given as one word.
InitCommands == InitWith({ <<option, word>> : option \in QuoteOptions, word \in CommandWords })

SpecCommands == InitCommands /\ [][Next]_vars

-----------------------------------------------------------------------------
(* Vocabulary of the properties.                                            *)

\* The records are written: Generate has run.
Generated == pc \in {"stdin", "flush", "expand", "tokenize", "iterator", "done"}

\* The cartesian product of the lists, the first list the slowest to vary and the
\* last the fastest.
RECURSIVE Odometer(_)
Odometer(ls) ==
    IF ls = <<>> THEN << <<>> >>
    ELSE LET rest == Odometer(Tail(ls))
             RECURSIVE From(_)
             From(i) ==
                 IF i > Len(Head(ls)) THEN <<>>
                 ELSE [j \in 1..Len(rest) |-> <<Head(ls)[i]>> \o rest[j]] \o From(i + 1)
         IN  From(1)

RECURSIVE SizeProduct(_)
SizeProduct(ls) == IF ls = <<>> THEN 1 ELSE Len(Head(ls)) * SizeProduct(Tail(ls))

\* The values of a tuple joined by single spaces.
RECURSIVE JoinSpace(_)
JoinSpace(tuple) ==
    IF tuple = <<>> THEN <<>>
    ELSE IF Len(tuple) = 1 THEN tuple[1]
    ELSE (tuple[1] \o <<" ">>) \o JoinSpace(Tail(tuple))

\* The newline-terminated records a sequence of bytes holds.
RECURSIVE RecordsOf(_)
RecordsOf(bytes) ==
    IF bytes = <<>> THEN <<>>
    ELSE LET nl == CHOOSE i \in 1..Len(bytes) :
                      bytes[i] = "\n" /\ \A j \in 1..(i - 1) : bytes[j] # "\n"
         IN  <<SubSeq(bytes, 1, nl - 1)>> \o RecordsOf(SubSeq(bytes, nl + 1, Len(bytes)))

-----------------------------------------------------------------------------
(* C1: with k >= 2 input lists of sizes s1..sk, the records written are     *)
(* exactly the s1*...*sk single-space joins of one value per list, in       *)
(* odometer order (last list fastest), and that many are counted.           *)

C1_OdometerRecords ==
    (Generated /\ Len(lists) >= 2) =>
        /\ RecordsOf(disk_buffer.data)
              = [i \in 1..Len(Odometer(lists)) |-> JoinSpace(Odometer(lists)[i])]
        /\ Len(RecordsOf(disk_buffer.data)) = SizeProduct(lists)
        /\ number_of_arguments = SizeProduct(lists)

\* `::: c f :::: f` with f holding a and b: c a, c b, f a, f b.
C1_Witness ==
    /\ pc = "done"
    /\ lists = << << <<"c">>, <<"f">> >>, << <<"a">>, <<"b">> >> >>
    /\ disk_buffer.data = <<"c", " ", "a", "\n", "c", " ", "b", "\n",
                            "f", " ", "a", "\n", "f", " ", "b", "\n">>
    /\ number_of_arguments = 4

-----------------------------------------------------------------------------
(* C2: with exactly one input list, however it is terminated, the records   *)
(* written are the values of that list, unchanged and in order, and the     *)
(* count is the size of the list.                                           *)

\* The stdin fallback is behind: every record there will be is written.
AllWritten == pc \in {"flush", "expand", "tokenize", "iterator", "done"}

C2_SingleListPassThrough ==
    (AllWritten /\ Len(lists) = 1) =>
        /\ RecordsOf(disk_buffer.data) = lists[1]
        /\ number_of_arguments = Len(lists[1])

-----------------------------------------------------------------------------
(* C3: when at least one value was placed into a list, standard input is    *)
(* not read and no line of it becomes a record.                             *)

C3_StdinOnlyWithoutValues ==
    (AllWritten /\ lists # <<>>) => ~stdin.read

-----------------------------------------------------------------------------
(* C4: once flush has completed, the number of records in the backing file  *)
(* is number_of_arguments, the count handed to tokenize and to the          *)
(* InputIterator, whichever strategy produced the records.                  *)

C4_RecordCount ==
    /\ disk_buffer.flushed => Len(RecordsOf(disk_buffer.data)) = number_of_arguments
    /\ arguments.called =>
          /\ disk_buffer.flushed
          /\ arguments.count = Len(RecordsOf(disk_buffer.data))
    /\ iterator.called =>
          /\ iterator.file.flushed
          /\ iterator.count = Len(RecordsOf(iterator.file.data))

\* A command and no list: the two decodable lines of stdin are the records.
C4_Witness ==
    /\ pc = "done"
    /\ lists = <<>>
    /\ comm # <<>>
    /\ stdin.read
    /\ RecordsOf(disk_buffer.data) = << <<"x">>, <<"y">> >>
    /\ iterator.count = 2

-----------------------------------------------------------------------------
(* C5: the parse mode is monotone.  Once the mode has left Arguments it     *)
(* never is Arguments again, and the mode changes only on a separator token *)
(* or, once, from Arguments to Command on the first token that is no        *)
(* option.                                                                  *)

\* The loop is about to handle the token Head(raw_args).
AtToken == pc = "loop" /\ raw_args # <<>>

IsOption(argument) == argument # <<>> /\ argument[1] = "-"

C5_ModeMonotone ==
    [][ pc # "start" =>
          /\ mode # "Arguments" => mode' # "Arguments"
          /\ mode' # mode =>
                /\ AtToken
                /\ \/ Head(raw_args) \in Separators
                   \/ /\ mode = "Arguments"
                      /\ mode' = "Command"
                      /\ ~IsOption(Head(raw_args)) ]_vars

\* `c :::: f ::: c`: Arguments, Command, Files, Inputs.
C5_Witness ==
    /\ pc = "done"
    /\ argv = << <<"c">>, SepFiles, <<"f">>, SepInputs, <<"c">> >>
    /\ mode = "Inputs"
    /\ comm = <<"c">>
    /\ Len(lists) = 2

-----------------------------------------------------------------------------
(* C6: in Inputs/Files mode a new-list separator pushes the current list    *)
(* and starts a fresh one iff the current list is non-empty, a same-list    *)
(* separator leaves the current list and the list sequence unchanged; no    *)
(* list of the sequence is ever empty, and the values are held in the order *)
(* they were given.                                                         *)

C6_ListClosing ==
    [][ /\ \A i \in 1..Len(lists') : lists'[i] # <<>>
        /\ (AtToken /\ mode \in {"Inputs", "Files"}) =>
              /\ Head(raw_args) \in {SepInputs, SepFiles} =>
                    IF current_inputs # <<>>
                    THEN lists' = Append(lists, current_inputs) /\ current_inputs' = <<>>
                    ELSE lists' = lists /\ current_inputs' = current_inputs
              /\ Head(raw_args) \in {SepInputsAdd, SepFilesAdd} =>
                    lists' = lists /\ current_inputs' = current_inputs
              /\ \E added \in SeqsUpTo({<<"a">>, <<"b">>, Head(raw_args)}, 2) :
                    Flatten(lists') \o current_inputs'
                       = (Flatten(lists) \o current_inputs) \o added ]_vars

\* `::: c :::+ f :::`: c and f share the list that the last `:::` pushes.
C6_Witness ==
    /\ pc = "generate"
    /\ argv = << SepInputs, <<"c">>, SepInputsAdd, <<"f">>, SepInputs >>
    /\ lists = << << <<"c">>, <<"f">> >> >>
    /\ current_inputs = <<>>

-----------------------------------------------------------------------------
(* C7: at most one of the quote and shellquote transforms is applied to the *)
(* command template before tokenization.  As claimed, quote wins when both  *)
(* are requested; in the code it is shellquote that wins.                   *)

\* The claim as stated: with both requested the template is quote_command's.
C7_QuoteWins ==
    [][ pc = "expand" =>
          comm' = IF quote THEN quote_command(comm)
                  ELSE IF shellquote THEN shellquote_command(comm)
                  ELSE comm ]_vars

\* The claim as amended: with both requested the template is shellquote_command's;
\* the template tokenize gets is the expanded one.
C7_ShellquoteWins ==
    [][ /\ pc = "expand" =>
              comm' = IF shellquote THEN shellquote_command(comm)
                      ELSE IF quote THEN quote_command(comm)
                      ELSE comm
        /\ pc # "expand" /\ pc # "loop" => comm' = comm
        /\ arguments'.called => arguments'.template = comm' ]_vars

\* `-vq --shellquote \&`: both requested, the backslash and the & are escaped
\* (quote_command would give two backslashes and an unescaped &).
C7_Witness ==
    /\ pc = "done"
    /\ quote
    /\ shellquote
    /\ arguments.template = <<"\\", "\\", "\\", "&">>

-----------------------------------------------------------------------------
(* C8: the command template is the single-space join of the tokens from the *)
(* first non-option token of Arguments mode up to (excluding) the first     *)
(* separator; a non-separator token of Command mode is appended verbatim    *)
(* even when it begins with `-`; no token seen after Arguments mode changes *)
(* the flags, the quote/shellquote choice or the job count.                 *)

\* -j and --jobs take the next token as their value.
TakesValue(argument) == argument \in {<<"-", "j">>, <<"-", "-", "j", "o", "b", "s">>}

\* The index of the first token from i on that is neither an option nor the value
\* of one, Len(av) + 1 if there is none.
RECURSIVE FirstNonOption(_, _)
FirstNonOption(av, i) ==
    IF i > Len(av) THEN Len(av) + 1
    ELSE IF IsOption(av[i])
    THEN FirstNonOption(av, IF TakesValue(av[i]) THEN i + 2 ELSE i + 1)
    ELSE i

\* The index of the first token from i on that is in seps, Len(av) + 1 if none is.
RECURSIVE FirstIn(_, _, _)
FirstIn(av, i, seps) ==
    IF i > Len(av) THEN Len(av) + 1
    ELSE IF av[i] \in seps THEN i
    ELSE FirstIn(av, i + 1, seps)

\* The template as claimed: any of the four separators ends it, also as its first token.
ClaimedTemplate(av) ==
    LET first == FirstNonOption(av, 1)
    IN  JoinSpace(SubSeq(av, first, FirstIn(av, first, Separators) - 1))

\* The template as amended: `:::+` and `::::+` are separators only after the first
\* token of the template; as the first non-option token they start the template.
AmendedTemplate(av) ==
    LET first == FirstNonOption(av, 1)
    IN  IF first <= Len(av) /\ av[first] \in {SepInputs, SepFiles} THEN <<>>
        ELSE JoinSpace(SubSeq(av, first, FirstIn(av, first + 1, Separators) - 1))

\* What C8 says of one step, for a given reading of the template.
C8_Step(template) ==
    /\ pc' = "generate" => comm' = template
    /\ (AtToken /\ mode = "Command" /\ Head(raw_args) \notin Separators) =>
          comm' = (comm \o <<" ">>) \o Head(raw_args)
    /\ (AtToken /\ mode # "Arguments") =>
          /\ flags' = flags
          /\ quote' = quote
          /\ shellquote' = shellquote
          /\ ncores' = ncores

\* The claim as stated.
C8_TemplateToFirstSeparator == [][C8_Step(ClaimedTemplate(argv))]_vars

\* The claim as amended.
C8_TemplateOfCommandMode == [][C8_Step(AmendedTemplate(argv))]_vars

\* `-vq \& -vq :::`: the second -vq is part of the template and sets nothing more.
C8_Witness ==
    /\ pc = "generate"
    /\ argv = << <<"-", "v", "q">>, <<"\\", "&">>, <<"-", "v", "q">>, SepInputs >>
    /\ comm = <<"\\", "&", " ", "-", "v", "q">>
    /\ mode = "Inputs"

-----------------------------------------------------------------------------
(* C9: a `:::+` (resp. `::::+`) that is the first list separator of the     *)
(* argument vector behaves as `:::` (resp. `::::`) in the same position:    *)
(* the mode, the lists, the command template and the flags come out the     *)
(* same.                                                                    *)

\* Lines 70-237 on the argument vector av: the locals when the loop is left.
Run(av) == ParseLoop(Start(NewLocals(av)))

\* What a run comes to: every local but the tokens it left unread.
Outcome(s) == [s EXCEPT !.raw_args = <<>>]

Plain(separator) == IF separator = SepInputsAdd THEN SepInputs ELSE SepFiles

\* The loop of the run is over: every token is handled, or the parse was abandoned.
LoopOver == (pc = "loop" /\ raw_args = <<>>) \/ pc \in {"error", "exit", "panic"}

\* The first separator of argv is a same-list one.
FirstSeparatorIsAdd ==
    LET i == FirstIn(argv, 1, Separators)
    IN  i <= Len(argv) /\ argv[i] \in {SepInputsAdd, SepFilesAdd}

\* argv with its first separator replaced by the plain one.
WithPlainSeparator ==
    LET i == FirstIn(argv, 1, Separators)
    IN  [argv EXCEPT ![i] = Plain(argv[i])]

\* The claim as stated: wherever the first separator stands.
C9_AddLikePlain ==
    (LoopOver /\ FirstSeparatorIsAdd) => Outcome(Locals) = Outcome(Run(WithPlainSeparator))

\* The claim as amended: when a token of the command template stands before it,
\* that is when it is met in Command mode.  Met in Arguments mode, `:::+` or
\* `::::+` is no separator: it starts the command template.
C9_AddLikePlainInCommandMode ==
    (LoopOver /\ FirstSeparatorIsAdd
        /\ FirstNonOption(argv, 1) < FirstIn(argv, 1, Separators)) =>
            Outcome(Locals) = Outcome(Run(WithPlainSeparator))

\* `c ::::+ f`: as `c :::: f`, the file f is read into the first list.
C9_Witness ==
    /\ LoopOver
    /\ argv = << <<"c">>, SepFilesAdd, <<"f">> >>
    /\ mode = "Files"
    /\ comm = <<"c">>
    /\ current_inputs = << <<"a">>, <<"b">> >>
    /\ Outcome(Locals) = Outcome(Run(<< <<"c">>, SepFiles, <<"f">> >>))

-----------------------------------------------------------------------------
(* C10: a short option block `-xyz` of Arguments mode applies each of its   *)
(* characters as an independent flag, except that a `j` in the block takes  *)
(* the characters after it in the token as the job count and, if none       *)
(* follow, the next whole argument.                                         *)

IsShortBlock(argument) ==
    Len(argument) >= 2 /\ argument[1] = "-" /\ argument[2] # "-"

\* The block as claimed: the characters from left to right, a `j` wherever it
\* stands taking the rest of the token, or the next argument, as its value.
RECURSIVE ClaimedShortBlock(_, _, _)
ClaimedShortBlock(s, chars, argument) ==
    IF chars = <<>> \/ s.pc # "loop" THEN s
    ELSE IF Head(chars) = "j"
    THEN IF Tail(chars) # <<>> THEN SetJobs(s, Tail(chars)) ELSE JobsFromNext(s)
    ELSE ClaimedShortBlock(ShortOptions(s, <<Head(chars)>>, argument),
                           Tail(chars), argument)

C10_ShortBlock ==
    [][ (AtToken /\ mode = "Arguments" /\ IsShortBlock(Head(raw_args))) =>
            Locals' = ClaimedShortBlock([Locals EXCEPT !.raw_args = Tail(raw_args)],
                                        SliceFrom(Head(raw_args), 1), Head(raw_args))
      ]_vars

-----------------------------------------------------------------------------
(* C11: for every job-count value v the spellings `-j<v>`, `-j` `v` and     *)
(* `--jobs` `v` come to the same: the same job count or the same job-parse  *)
(* error, and the tokens after the option and its value are parsed alike.   *)

JobsShort == <<"-", "j">>

JobsLong  == <<"-", "-", "j", "o", "b", "s">>

\* The token handled next spells a job count: `-j<v>`, or `-j` / `--jobs` before v.
AtJobsSpelling ==
    /\ AtToken
    /\ mode = "Arguments"
    /\ LET argument == Head(raw_args)
       IN  \/ argument \in {JobsShort, JobsLong} /\ Len(raw_args) >= 2
                /\ raw_args[2] # <<>>
           \/ Len(argument) > 2 /\ SubSeq(argument, 1, 2) = JobsShort

\* The value v of the spelling, and the tokens after the option and its value.
JobsValue ==
    IF Head(raw_args) \in {JobsShort, JobsLong} THEN raw_args[2]
    ELSE SliceFrom(Head(raw_args), 2)

AfterJobs ==
    IF Head(raw_args) \in {JobsShort, JobsLong} THEN SliceFrom(raw_args, 2)
    ELSE Tail(raw_args)

\* The rest of the loop from the state reached, with the job count spelled as given.
RunSpelled(spelling) == ParseLoop([Locals EXCEPT !.raw_args = spelling \o AfterJobs])

\* C11: wherever a job count is spelled in Arguments mode, the three spellings of
\* its value v give the same locals at the end of the loop (job count or error,
\* mode, lists, template, flags, tokens left), and right after the option the
\* tokens left to parse are those after the option and its value.
C11_JobsSpellings ==
    AtJobsSpelling =>
        /\ RunSpelled(<<JobsShort \o JobsValue>>) = RunSpelled(<<JobsShort, JobsValue>>)
        /\ RunSpelled(<<JobsShort, JobsValue>>) = RunSpelled(<<JobsLong, JobsValue>>)
        /\ LET after == ParseArgument([Locals EXCEPT !.raw_args = Tail(raw_args)],
                                      Head(raw_args))
           IN  /\ after.raw_args = AfterJobs
               /\ IF JobsParse(JobsValue).ok
                  THEN after.pc = "loop" /\ after.ncores = JobsParse(JobsValue).value
                  ELSE after.pc = "error" /\ after.err = <<"JobsParse", JobsValue>>

\* `--jobs 2 x`: at the option the three spellings all end with 2 jobs and the
\* template x.
C11_Witness ==
    /\ argv = <<JobsLong, <<"2">>, <<"x">> >>
    /\ AtJobsSpelling
    /\ RunSpelled(<<JobsShort \o JobsValue>>).ncores = 2
    /\ RunSpelled(<<JobsShort \o JobsValue>>).comm = <<"x">>
    /\ RunSpelled(<<JobsShort, JobsValue>>).ncores = 2

-----------------------------------------------------------------------------
(* C12: Args::parse called with an empty argument vector fails with         *)
(* ParseErr::NoArguments.                                                   *)

\* C12: once parse has taken its first step on an empty argument vector it has
\* returned the no-arguments error, and it has done nothing else.
C12_NoArguments ==
    (argv = <<>> /\ pc # "start") =>
        /\ pc = "error"
        /\ err = <<"NoArguments">>
        /\ mode = "Unset"
        /\ disk_buffer = DiskBufferNew
        /\ ~arguments.called
        /\ ~iterator.called

C12_Witness == argv = <<>> /\ pc = "error" /\ err = <<"NoArguments">>

-----------------------------------------------------------------------------
(* C13: in Arguments mode an unrecognized short or long option, or a bare   *)
(* `-`, makes parse fail with the invalid-argument error carrying the whole *)
(* offending token, and no later token is processed.                        *)

ShortFlags == {"h", "n", "p", "q", "s", "v"}

LongNames ==
    { <<"h", "e", "l", "p">>, <<"j", "o", "b", "s">>,
      <<"n", "o", "-", "s", "h", "e", "l", "l">>,
      <<"n", "u", "m", "-", "c", "p", "u", "-", "c", "o", "r", "e", "s">>,
      <<"p", "i", "p", "e">>, <<"q", "u", "i", "e", "t">>, <<"s", "i", "l", "e", "n", "t">>,
      <<"q", "u", "o", "t", "e">>, <<"s", "h", "e", "l", "l", "q", "u", "o", "t", "e">>,
      <<"v", "e", "r", "b", "o", "s", "e">>, <<"v", "e", "r", "s", "i", "o", "n">> }

\* A short block that is no job count and in which a character that is no flag
\* stands before any `h` (the help option ends the process where it stands).
UnknownShort(argument) ==
    /\ IsShortBlock(argument)
    /\ argument[2] # "j"
    /\ \E i \in 2..Len(argument) :
          /\ argument[i] \notin ShortFlags
          /\ \A k \in 2..(i - 1) : argument[k] # "h"

UnknownLong(argument) ==
    /\ Len(argument) >= 2
    /\ SubSeq(argument, 1, 2) = <<"-", "-">>
    /\ SliceFrom(argument, 2) \notin LongNames

Unrecognized(argument) ==
    argument = <<"-">> \/ UnknownShort(argument) \/ UnknownLong(argument)

\* C13: the step that handles an unrecognized option or a bare `-` in Arguments
\* mode ends the parse with InvalidArgument(the whole token), and no step is taken
\* once an error is returned: the tokens after it stay unread.
C13_InvalidArgument ==
    [][ /\ pc # "error"
        /\ (AtToken /\ mode = "Arguments" /\ Unrecognized(Head(raw_args))) =>
              /\ pc' = "error"
              /\ err' = <<"InvalidArgument", Head(raw_args)>>
              /\ raw_args' = Tail(raw_args)
      ]_vars

\* `-vx x`: the error carries `-vx`, the token x after it is left unread.
C13_Witness ==
    /\ argv = << <<"-", "v", "x">>, <<"x">> >>
    /\ pc = "error"
    /\ err = <<"InvalidArgument", <<"-", "v", "x">> >>
    /\ raw_args = << <<"x">> >>
    /\ comm = <<>>

-----------------------------------------------------------------------------
(* C14: when `-j` (no character after the `j`) or `--jobs` is the last      *)
(* token of the argument vector, parse fails with ParseErr::JobsNoValue.    *)

EndsWithJobs == argv # <<>> /\ argv[Len(argv)] \in {JobsShort, JobsLong}

\* C14 as stated: whatever stands before the last token, the loop ends with the
\* jobs-missing-value error (the runs that abort on an empty token, see C20, are
\* left aside).
C14_LastTokenJobs ==
    (LoopOver /\ EndsWithJobs /\ pc # "panic") =>
        (pc = "error" /\ err = <<"JobsNoValue">>)

\* C14 as amended: when `-j` or `--jobs` is handled as an option of Arguments mode
\* and no token follows it, the step ends the parse with the jobs-missing-value
\* error and changes neither the job count nor anything else.
C14_JobsOptionWithoutValue ==
    [][ (AtToken /\ mode = "Arguments" /\ Head(raw_args) \in {JobsShort, JobsLong}
            /\ Tail(raw_args) = <<>>) =>
              /\ pc' = "error"
              /\ err' = <<"JobsNoValue">>
              /\ ncores' = ncores
              /\ UNCHANGED <<flags, comm, lists, current_inputs, mode>>
      ]_vars

\* `-j2 --jobs`: the job count 2 of the first option stands, the second has no value.
C14_Witness ==
    /\ argv = << <<"-", "j", "2">>, JobsLong >>
    /\ pc = "error"
    /\ err = <<"JobsNoValue">>
    /\ ncores = 2
    /\ raw_args = <<>>

-----------------------------------------------------------------------------
(* C15: error propagation is immediate, with no partial success: the first  *)
(* error met is the one returned, and after a grammar error or a list-file  *)
(* open error no record was written to the disk buffer, flush and tokenize  *)
(* were not called, Args.arguments holds no token and no InputIterator was  *)
(* constructed.                                                             *)

GrammarErrors == {"NoArguments", "JobsNoValue", "JobsParse", "InvalidArgument"}

\* C15: no step is taken once an error is returned, so the error returned is the
\* first one met; parse is left with an error exactly when one is met; and a step
\* that meets a grammar error or a file-open error is taken with nothing written,
\* nothing flushed, nothing tokenized, standard input unread and no InputIterator.
C15_ImmediateError ==
    [][ /\ pc # "error" /\ err = NoErr
        /\ (err' # NoErr) <=> (pc' = "error")
        /\ (pc' = "error" /\ err'[1] \in GrammarErrors \cup {"FileOpen"}) =>
              /\ disk_buffer' = DiskBufferNew
              /\ number_of_arguments' = 0
              /\ ~stdin'.read
              /\ ~arguments'.called
              /\ ~iterator'.called
      ]_vars

\* `:::: x 2`: the file x cannot be opened; 2 stays unread, and nothing was written.
C15_Witness ==
    /\ argv = << SepFiles, <<"x">>, <<"2">> >>
    /\ pc = "error"
    /\ err = <<"FileOpen", <<"x">> >>
    /\ raw_args = << <<"2">> >>
    /\ disk_buffer = DiskBufferNew
    /\ ~arguments.called
    /\ ~iterator.called

-----------------------------------------------------------------------------
(* C16: on every successful parse the steps come in this order, each once:  *)
(* all the record writes, then flush, then tokenize, then the construction  *)
(* of the InputIterator; nothing is written after flush, and the reader is  *)
(* never constructed over an unflushed buffer.                              *)

\* The position of parse, in the order of the code.
PipelineRank(p) ==
    CASE p = "start"    -> 0
      [] p = "loop"     -> 1
      [] p = "generate" -> 2
      [] p = "stdin"    -> 3
      [] p = "flush"    -> 4
      [] p = "expand"   -> 5
      [] p = "tokenize" -> 6
      [] p = "iterator" -> 7
      [] OTHER          -> 8

\* C16: a step writes to the buffer only before flush, tokenize and the reader;
\* the buffer is flushed by one step, taken when it is unflushed and nothing is
\* tokenized; tokenize is called by one step, on a flushed buffer and before the
\* reader; the reader is constructed by one step, after tokenize, over the flushed
\* buffer; past the loop every step moves parse forward, so none is taken twice;
\* and a parse that succeeds has taken them all.
C16_PipelineOrder ==
    [][ /\ (disk_buffer'.data # disk_buffer.data) =>
              /\ pc \in {"generate", "stdin"}
              /\ ~disk_buffer.flushed /\ ~disk_buffer'.flushed
              /\ ~arguments.called /\ ~iterator.called
        /\ (disk_buffer'.flushed # disk_buffer.flushed) =>
              /\ pc = "flush"
              /\ ~disk_buffer.flushed
              /\ disk_buffer'.data = disk_buffer.data
              /\ ~arguments.called /\ ~iterator.called
        /\ (arguments' # arguments) =>
              /\ pc = "tokenize"
              /\ ~arguments.called /\ arguments'.called
              /\ disk_buffer.flushed /\ disk_buffer' = disk_buffer
              /\ ~iterator.called
        /\ (iterator' # iterator) =>
              /\ pc = "iterator"
              /\ ~iterator.called /\ iterator'.called
              /\ arguments.called
              /\ disk_buffer.flushed
              /\ iterator'.file = disk_buffer
        /\ PipelineRank(pc') >= PipelineRank(pc)
        /\ PipelineRank(pc) >= 2 => PipelineRank(pc') > PipelineRank(pc)
        /\ pc' = "done" =>
              /\ disk_buffer'.flushed
              /\ arguments'.called
              /\ iterator'.called
              /\ iterator'.file = disk_buffer'
      ]_vars

\* `::: c ::: c`: the record `c c` is written, flushed, and the reader is over it.
C16_Witness ==
    /\ argv = << SepInputs, <<"c">>, SepInputs, <<"c">> >>
    /\ pc = "done"
    /\ disk_buffer = [data |-> <<"c", " ", "c", "\n">>, flushed |-> TRUE]
    /\ arguments.called
    /\ iterator.called
    /\ iterator.file = disk_buffer

-----------------------------------------------------------------------------
(* C17: quote_command replaces every backslash of its input by two and      *)
(* leaves every other character unchanged and in order (output length =     *)
(* input length + number of backslashes); it is not idempotent: applied     *)
(* twice to an input with a backslash it gives four backslashes for each    *)
(* and differs from applying it once.                                       *)

\* The number of characters of S among the first n of c.
CountIn(c, S, n) == Cardinality({k \in 1..n : c[k] \in S})

\* out is c with every backslash replaced by times backslashes, the other
\* characters unchanged and in order.
BackslashesReplaced(c, out, times) ==
    LET pos(i) == i + (times - 1) * CountIn(c, {"\\"}, i - 1)
    IN  /\ Len(out) = Len(c) + (times - 1) * CountIn(c, {"\\"}, Len(c))
        /\ \A i \in 1..Len(c) :
              IF c[i] = "\\"
              THEN \A d \in 0..(times - 1) : out[pos(i) + d] = "\\"
              ELSE out[pos(i)] = c[i]

\* C17: the template the step of lines 299-300 leaves under --quote is the one
\* before it with every backslash doubled; quote_command applied once more gives
\* four backslashes for each original one and, if there is any, another string.
C17_QuoteDoubles ==
    [][ (pc = "expand" /\ quote /\ ~shellquote) =>
            /\ BackslashesReplaced(comm, comm', 2)
            /\ BackslashesReplaced(comm, quote_command(comm'), 4)
            /\ CountIn(comm, {"\\"}, Len(comm)) > 0 => quote_command(comm') # comm'
      ]_vars

\* `-q '\a\'`: the template becomes `\\a\\`, and a second application gives 9 characters.
C17_Witness ==
    /\ argv = << <<"-", "q">>, <<"\\", "a", "\\">> >>
    /\ pc = "tokenize"
    /\ comm = <<"\\", "\\", "a", "\\", "\\">>
    /\ Len(quote_command(comm)) = 9

-----------------------------------------------------------------------------
(* C18: shellquote_command leaves the first space of the template unescaped *)
(* and puts exactly one backslash before every later occurrence of a shell  *)
(* metacharacter of the set, every later space included; all characters of  *)
(* the input are in the output in their order: `cmd a&b` gives `cmd a\&b`.  *)

\* The index of the first space of c, 0 if it has none.
FirstSpace(c) ==
    IF \E i \in 1..Len(c) : c[i] = " "
    THEN CHOOSE i \in 1..Len(c) : c[i] = " " /\ \A k \in 1..(i - 1) : c[k] # " "
    ELSE 0

\* The characters that get a backslash: the metacharacters but the first space.
Escaped(c, i) == c[i] \in ShellMeta /\ i # FirstSpace(c)

EscapedUpTo(c, n) == Cardinality({k \in 1..n : Escaped(c, k)})

\* out is c with one backslash inserted before each escaped character and nothing
\* else changed.
Shellquoted(c, out) ==
    LET pos(i) == i + EscapedUpTo(c, i)
    IN  /\ Len(out) = Len(c) + EscapedUpTo(c, Len(c))
        /\ \A i \in 1..Len(c) :
              /\ out[pos(i)] = c[i]
              /\ Escaped(c, i) => out[pos(i) - 1] = "\\"

\* C18: the template the step of lines 299-300 leaves under --shellquote is the
\* one before it with one backslash inserted before every metacharacter but the
\* first space, which stays as it is; the same holds of the claim's example and of
\* every metacharacter of the set placed after the first space.
C18_ShellquoteEscapes ==
    [][ (pc = "expand" /\ shellquote) =>
            /\ Shellquoted(comm, comm')
            /\ FirstSpace(comm) > 0 =>
                  /\ comm'[FirstSpace(comm) + EscapedUpTo(comm, FirstSpace(comm))] = " "
                  /\ EscapedUpTo(comm, FirstSpace(comm))
                        = EscapedUpTo(comm, FirstSpace(comm) - 1)
            /\ shellquote_command(<<"c", "m", "d", " ", "a", "&", "b">>)
                  = <<"c", "m", "d", " ", "a", "\\", "&", "b">>
            /\ \A m \in ShellMeta :
                  shellquote_command(<<"a", " ", "a", m>>) = <<"a", " ", "a", "\\", m>>
      ]_vars

\* `--shellquote 'a & '`: the first space stays, `&` and the second space are escaped.
C18_Witness ==
    /\ argv = << <<"-", "-", "s", "h", "e", "l", "l", "q", "u", "o", "t", "e">>,
                 <<"a", " ", "&", " ">> >>
    /\ pc = "tokenize"
    /\ comm = <<"a", " ", "\\", "&", "\\", " ">>

-----------------------------------------------------------------------------
(* C19: at the end of every successful parse Flags.inputs_are_commands is   *)
(* true if and only if no command template was captured (the template       *)
(* handed to the tokenizer is empty); an argument vector made only of       *)
(* options, its inputs coming from standard input, has it true.             *)

\* C19: when parse has returned its InputIterator, inputs_are_commands tells
\* whether the template tokenize was called with is empty.
C19_InputsAreCommands ==
    pc = "done" => (flags.inputs_are_commands <=> arguments.template = <<>>)

-----------------------------------------------------------------------------
(* C20: every token handled in Arguments mode has at least one character,   *)
(* so taking its first character never fails: for every argument vector,    *)
(* those with an empty-string token included, parse ends by returning a     *)
(* result or a ParseErr and never aborts, and the unreachable!() branch of  *)
(* the Inputs/Files handler is never reached.                               *)

\* C20: parse never panics, neither on the unwrap() of the first character of a
\* token of Arguments mode nor on unreachable!().
C20_NeverAborts == pc # "panic"

====
